---- MODULE Spec2Model ----
(***************************************************************************)
(* Model of the matching engine of auto_utils (crate image_utils):          *)
(* template matching over a confidence map, multi-template matching and     *)
(* digit recognition (image_match.rs), colour search over a captured buffer *)
(* (color_detection.rs), the capture entry points (screenshot.rs), and the  *)
(* path and rotation functions of crate math_utils (lib.rs).                *)
(*                                                                          *)
(* Number representation.  A confidence score is an f32 produced by         *)
(* OpenCV's matchTemplate; a threshold is an f64.  Both are modelled on one *)
(* integer grid that stands for the f64 values; the f32 values are the even *)
(* points of that grid.  A center coordinate col + w/2.0 is held exactly,   *)
(* in half pixels (2*col + w).                                              *)
(***************************************************************************)
EXTENDS Integers, Sequences, FiniteSets, TLC

\* ------------------------------------------------------------------ bounds
\* width and height of the captured region (the source of matchTemplate)
SrcW == 3
SrcH == 3
\* a confidence map has at most MaxHot cells with a score above 0
MaxHot == 2
\* scores are the f32 points of 0..MaxScore, thresholds the f64 points 1..MaxThreshold
MaxScore == 4
MaxThreshold == 3

Scores == {v \in 0..MaxScore : v % 2 = 0}
Thresholds == 1..MaxThreshold
\* region offsets (x, y) of a call
Offsets == {<<0, 0>>, <<3, 5>>}

VARIABLES
    op,             \* the public operation being executed ("none" when idle)
    pc,             \* position inside the operation
    x, y,           \* region offset of the call (offset_x, offset_y)
    width, height,  \* size of the captured region (of imgsrc)
    threshold,      \* f64 threshold of the call
    template_w, template_h,
    result_mat,     \* confidence map: function (row, col) -> score
    rows, cols,     \* its dimensions
    is_continuous,  \* Mat::is_continuous() of result_mat
    i,              \* flat index of the contiguous scan
    scan_y, scan_x, \* loop variables of the row-by-row scan
    examined,       \* the cells whose score the scan has read, in order
    matches,        \* Vec<MatchResult> of extract_matches
    image_paths,    \* number of template paths given to find_images_optimized_coords
    path_index,     \* index (from 1) of the template the loop is at
    min_distance,   \* max(template_w, template_h) of the current template
    match_index,    \* index (from 1) of the next match of the deduplication loop
    filtered_coords, \* centers accepted so far for the current template
    all_coords,     \* centers collected for the templates already finished
    captures,       \* number of screen captures the call has made
    img,            \* captured BGR buffer of the colour search: (row, col) -> <<b, g, r>>
    target_rgb,     \* target colour <<r, g, b>>
    tolerance,      \* tolerance of the colour search
    x1, y1,         \* region origin of the colour search
    color1, color2, \* arguments of calculate_color_difference
    screenshot,     \* the captured buffer: the number of the capture that made it, 0 = none
    matched_on,     \* the buffer (its capture number) each match_template call was given
    digit_pc,       \* position of each per-digit task of the parallel iterator
    glyph,          \* size <<w, h>> of each digit's template once loaded
    digit_mat,      \* confidence map of each digit's find_all_template
    digit_matches,  \* the Vec<(x, digit)> each task returns
    completed,      \* the digits in the order their tasks finished
    results,        \* the collected Vec<(x, digit)> before the sort
    monitors,       \* the value of Monitor::all() inside a capture entry point
    path_array,     \* the path given to generate_new_path_array(_i32)
    current_coord,  \* its current_coord
    overflow_checks, \* whether the build checks integer overflow (debug) or wraps
    current_angle,  \* the heading given to calculate_rotation_angle_old, in degrees
    current_xy,     \* its (current_x, current_y)
    target_xy,      \* its (target_x, target_y)
    target_angle,   \* the bearing calculate_angle_old returned: <<degrees>>, or NaN
    ret             \* the value returned by the operation

multi == <<image_paths, path_index, min_distance, match_index, filtered_coords,
           all_coords, captures>>

color == <<img, target_rgb, tolerance, x1, y1, color1, color2>>

capture == <<screenshot, matched_on>>

digits == <<digit_pc, glyph, digit_mat, digit_matches, completed, results>>

\* state of the operations that run on their own: the capture entry points and the
\* path and rotation functions of math_utils
rotation == <<current_angle, current_xy, target_xy, target_angle>>

standalone == <<monitors, path_array, current_coord, overflow_checks, rotation>>

vars == <<op, pc, x, y, width, height, threshold, template_w, template_h, result_mat,
          rows, cols, is_continuous, i, scan_y, scan_x, examined, matches, multi, color,
          capture, digits, standalone, ret>>

NoRet == [tag |-> "None"]
Ok(v) == [tag |-> "Ok", val |-> v]
Err(e) == [tag |-> "Err", err |-> e]

\* ------------------------------------------------------------------ numbers
\* `confidence as f32`: round to the nearest f32, ties to the even mantissa
ToF32(t) == IF t % 2 = 0 THEN t ELSE IF (t - 1) % 4 = 0 THEN t - 1 ELSE t + 1

\* fault: the fraction is dropped, as a bare `as i32` would
Round_truncated(c2) == c2 \div 2

\* f64::round of a non-negative value held in half units: halves go away from zero
Round(c2) == (c2 + 1) \div 2

Max(a, b) == IF a >= b THEN a ELSE b
Abs(a) == IF a < 0 THEN -a ELSE a

\* ------------------------------------------------------------------ extract_matches
Point(px, py) == [x |-> px, y |-> py]

\* the MatchResult pushed for cell (cx, cy)
MatchOf(mat, tw, th, cx, cy) ==
    [confidence |-> mat[cy, cx],
     rectangle |-> <<Point(cx, cy), Point(cx, cy + th),
                     Point(cx + tw, cy), Point(cx + tw, cy + th)>>,
     result |-> Point(2 * cx + tw, 2 * cy + th)]

\* faults of the two comparisons: a strict comparison
MeetsF64_strict(v, thr) == v > thr
MeetsF32_strict(v, thr) == v > ToF32(thr)

\* the comparison of extract_matches: confidence_val as f64 >= threshold
MeetsF64(v, thr) == v >= thr

\* the comparison of the first-hit scans: confidence_val >= threshold as f32
MeetsF32(v, thr) == v >= ToF32(thr)

RECURSIVE ScanRow(_, _, _, _, _, _, _)
ScanRow(mat, nc, tw, th, thr, cy, cx) ==
    IF cx >= nc THEN <<>>
    ELSE (IF MeetsF64(mat[cy, cx], thr) THEN <<MatchOf(mat, tw, th, cx, cy)>> ELSE <<>>)
         \o ScanRow(mat, nc, tw, th, thr, cy, cx + 1)

RECURSIVE ScanRows(_, _, _, _, _, _, _)
ScanRows(mat, nr, nc, tw, th, thr, cy) ==
    IF cy >= nr THEN <<>>
    ELSE ScanRow(mat, nc, tw, th, thr, cy, 0) \o ScanRows(mat, nr, nc, tw, th, thr, cy + 1)

\* fault: the new element is put in front whatever its confidence
InsertDesc_front(s, e) == <<e>> \o s

\* stable insertion into a list sorted by confidence descending
RECURSIVE InsertDesc(_, _)
InsertDesc(s, e) ==
    IF s = <<>> THEN <<e>>
    ELSE IF Head(s).confidence >= e.confidence THEN <<Head(s)>> \o InsertDesc(Tail(s), e)
    ELSE <<e>> \o s

\* fault: the list is left in scan order
SortDesc_unsorted(done, rest) == done \o rest

RECURSIVE SortDesc(_, _)
SortDesc(done, rest) ==
    IF rest = <<>> THEN done ELSE SortDesc(InsertDesc(done, Head(rest)), Tail(rest))

ExtractMatches(mat, nr, nc, tw, th, thr) ==
    SortDesc(<<>>, ScanRows(mat, nr, nc, tw, th, thr, 0))

\* ------------------------------------------------------------------ state machine
Init ==
    /\ op = "none" /\ pc = "idle"
    /\ x = 0 /\ y = 0 /\ width = 0 /\ height = 0 /\ threshold = 0
    /\ template_w = 0 /\ template_h = 0
    /\ result_mat = <<>> /\ rows = 0 /\ cols = 0 /\ is_continuous = TRUE
    /\ i = 0 /\ scan_y = 0 /\ scan_x = 0
    /\ examined = <<>> /\ matches = <<>> /\ ret = NoRet
    /\ image_paths = 0 /\ path_index = 0 /\ min_distance = 0 /\ match_index = 0
    /\ filtered_coords = <<>> /\ all_coords = <<>> /\ captures = 0
    /\ img = <<>> /\ target_rgb = <<0, 0, 0>> /\ tolerance = 0 /\ x1 = 0 /\ y1 = 0
    /\ color1 = <<0, 0, 0>> /\ color2 = <<0, 0, 0>>
    /\ screenshot = 0 /\ matched_on = <<>>
    /\ digit_pc = <<>> /\ glyph = <<>> /\ digit_mat = <<>> /\ digit_matches = <<>>
    /\ completed = <<>> /\ results = <<>>
    /\ monitors = NoRet /\ path_array = <<>> /\ current_coord = <<0, 0>>
    /\ overflow_checks = FALSE
    /\ current_angle = 0 /\ current_xy = <<0, 0>> /\ target_xy = <<0, 0>>
    /\ target_angle = <<0>>

Cells(nr, nc) == (0..(nr - 1)) \X (0..(nc - 1))

\* the subsets of S with at most n elements
RECURSIVE SmallSubsets(_, _)
SmallSubsets(S, n) ==
    IF n = 0 THEN {{}}
    ELSE LET smaller == SmallSubsets(S, n - 1) IN
         smaller \cup {A \cup {e} : <<A, e>> \in smaller \X S}

\* the confidence maps matchTemplate may produce for an nr x nc result
Maps(nr, nc) ==
    UNION { { [p \in Cells(nr, nc) |-> IF p \in H THEN f[p] ELSE 0] : f \in [H -> Scores \ {0}] }
            : H \in SmallSubsets(Cells(nr, nc), MaxHot) }

\* the sizes of the templates tried on a w x h source: every size that fits and the
\* sizes one pixel too wide or too high
TemplateSizes(w, h) == (1..(w + 1)) \X (1..(h + 1))

\* a template-matching operation is called with a region offset, a threshold
\* and a template of some size
Call(name) ==
    /\ pc = "idle"
    /\ op' = name
    /\ \E o \in Offsets : x' = o[1] /\ y' = o[2]
    /\ width' = SrcW /\ height' = SrcH
    /\ threshold' \in Thresholds
    /\ \E t \in TemplateSizes(SrcW, SrcH) : template_w' = t[1] /\ template_h' = t[2]
    /\ pc' = "match_template"
    /\ UNCHANGED <<standalone, digits, capture, color,
                   result_mat, rows, cols, is_continuous, i, scan_y, scan_x,
                   examined, matches, multi, ret>>

CallFindTemplateCoord == Call("find_template_coord")
CallFindTemplateExists == Call("find_template_exists")
CallFindAllTemplate == Call("find_all_template")
CallFindImageOptimizedCoord == Call("find_image_optimized_coord")

\* fault: the coordinates collected so far are returned in place of the error
Propagate_partial(e, collected) == Ok(collected)

\* the `?` operator: the function returns Err(e) at once; what it has collected so
\* far (all_coords in the multi-template loop) is dropped with its frame
Propagate(e, collected) == Err(e)

\* imgproc::match_template binds cv::matchTemplate, which is called without a mask.
\* needswap: the image is smaller than the template in some dimension
NeedSwap(tw, th, w, h) == h < th \/ w < tw

\* under needswap cv::matchTemplate asserts that the image is not larger than the
\* template in any dimension and then swaps the two; the failed assertion is the
\* opencv::Error the `?` returns
MatchTemplateFails(tw, th, w, h) == NeedSwap(tw, th, w, h) /\ ~(h <= th /\ w <= tw)

\* corrSize of the result: (larger - smaller + 1) in each dimension
ResultRows(tw, th, w, h) == IF NeedSwap(tw, th, w, h) THEN th - h + 1 ELSE h - th + 1
ResultCols(tw, th, w, h) == IF NeedSwap(tw, th, w, h) THEN tw - w + 1 ELSE w - tw + 1

\* match_template(..)?: an error, or a ResultRows x ResultCols map of f32 scores
MatchTemplateOf(maps) ==
    /\ pc = "match_template"
    /\ matched_on' = Append(matched_on, screenshot)
    /\ IF MatchTemplateFails(template_w, template_h, width, height)
       THEN /\ ret' = Propagate("OpenCV", all_coords)
            /\ pc' = "done"
            /\ UNCHANGED <<result_mat, rows, cols, is_continuous>>
       ELSE /\ rows' = ResultRows(template_w, template_h, width, height)
            /\ cols' = ResultCols(template_w, template_h, width, height)
            /\ result_mat' \in maps
            /\ IF op \in {"find_template_coord", "find_template_exists"}
               THEN is_continuous' \in BOOLEAN
               ELSE is_continuous' = is_continuous
            /\ pc' = IF op \in {"find_template_coord", "find_template_exists"}
                     THEN "scan" ELSE "extract"
            /\ ret' = ret
    /\ UNCHANGED <<standalone, digits, screenshot, color, op, x, y, width, height, threshold,
                   template_w, template_h, i, scan_y, scan_x, examined, matches, multi>>

MatchTemplate ==
    MatchTemplateOf(Maps(ResultRows(template_w, template_h, width, height),
                         ResultCols(template_w, template_h, width, height)))

\* ------------------------------------------------------------------ first-hit scans
\* the cell that element i of a contiguous row-major Mat holds
MemCell(n, nc) == <<n \div nc, n % nc>>

\* the position find_template_coord computes from the flat index
FlatRow(n, nc) == n \div nc

\* fault: the column is taken by division, as the row is
FlatCol_divided(n, nc) == n \div nc

FlatCol(n, nc) == n % nc

\* fault: the top-left corner of the match is returned in place of its center
CenterCoord_corner(cx, cy, tw, th, ox, oy) == <<ox + cx, oy + cy>>

\* rounded center of the match at cell (cx, cy), translated by the region offset
CenterCoord(cx, cy, tw, th, ox, oy) ==
    <<ox + Round(2 * cx + tw), oy + Round(2 * cy + th)>>

\* fault: the sentinel is translated by the region offset
NotFoundCoord_translated(ox, oy) == <<ox, oy>>

\* the value both scans return when the loop ends without a hit
NotFoundCoord(ox, oy) == <<0, 0>>

\* find_template_coord, contiguous path: one iteration of `for i in 0..total_pixels`
CoordScanContinuous ==
    /\ pc = "scan" /\ op = "find_template_coord" /\ is_continuous
    /\ IF i < rows * cols
       THEN /\ examined' = Append(examined, MemCell(i, cols))
            /\ IF MeetsF32(result_mat[MemCell(i, cols)], threshold)
               THEN /\ ret' = Ok(CenterCoord(FlatCol(i, cols), FlatRow(i, cols),
                                             template_w, template_h, x, y))
                    /\ pc' = "done"
                    /\ i' = i
               ELSE /\ i' = i + 1
                    /\ UNCHANGED <<ret, pc>>
       ELSE /\ ret' = Ok(NotFoundCoord(x, y))
            /\ pc' = "done"
            /\ UNCHANGED <<i, examined>>
    /\ UNCHANGED <<standalone, digits, capture, color,
                   op, x, y, width, height, threshold, template_w, template_h,
                   result_mat, rows, cols,
                   is_continuous, scan_y, scan_x, matches, multi>>

\* the loop variables after the body of `for x in 0..cols` inside `for y in 0..rows`
NextScanY(sy, sx, nc) == IF sx + 1 < nc THEN sy ELSE sy + 1
NextScanX(sy, sx, nc) == IF sx + 1 < nc THEN sx + 1 ELSE 0

\* find_template_coord, row-by-row path: one iteration of the inner loop
CoordScanRows ==
    /\ pc = "scan" /\ op = "find_template_coord" /\ ~is_continuous
    /\ IF scan_y < rows
       THEN /\ examined' = Append(examined, <<scan_y, scan_x>>)
            /\ IF MeetsF32(result_mat[scan_y, scan_x], threshold)
               THEN /\ ret' = Ok(CenterCoord(scan_x, scan_y, template_w, template_h, x, y))
                    /\ pc' = "done"
                    /\ UNCHANGED <<scan_y, scan_x>>
               ELSE /\ scan_y' = NextScanY(scan_y, scan_x, cols)
                    /\ scan_x' = NextScanX(scan_y, scan_x, cols)
                    /\ UNCHANGED <<ret, pc>>
       ELSE /\ ret' = Ok(NotFoundCoord(x, y))
            /\ pc' = "done"
            /\ UNCHANGED <<scan_y, scan_x, examined>>
    /\ UNCHANGED <<standalone, digits, capture, color,
                   op, x, y, width, height, threshold, template_w, template_h,
                   result_mat, rows, cols,
                   is_continuous, i, matches, multi>>

\* find_template_exists, contiguous path
ExistsScanContinuous ==
    /\ pc = "scan" /\ op = "find_template_exists" /\ is_continuous
    /\ IF i < rows * cols
       THEN /\ examined' = Append(examined, MemCell(i, cols))
            /\ IF MeetsF32(result_mat[MemCell(i, cols)], threshold)
               THEN ret' = Ok(TRUE) /\ pc' = "done" /\ i' = i
               ELSE i' = i + 1 /\ UNCHANGED <<ret, pc>>
       ELSE /\ ret' = Ok(FALSE)
            /\ pc' = "done"
            /\ UNCHANGED <<i, examined>>
    /\ UNCHANGED <<standalone, digits, capture, color,
                   op, x, y, width, height, threshold, template_w, template_h,
                   result_mat, rows, cols,
                   is_continuous, scan_y, scan_x, matches, multi>>

\* find_template_exists, row-by-row path
ExistsScanRows ==
    /\ pc = "scan" /\ op = "find_template_exists" /\ ~is_continuous
    /\ IF scan_y < rows
       THEN /\ examined' = Append(examined, <<scan_y, scan_x>>)
            /\ IF MeetsF32(result_mat[scan_y, scan_x], threshold)
               THEN ret' = Ok(TRUE) /\ pc' = "done" /\ UNCHANGED <<scan_y, scan_x>>
               ELSE /\ scan_y' = NextScanY(scan_y, scan_x, cols)
                    /\ scan_x' = NextScanX(scan_y, scan_x, cols)
                    /\ UNCHANGED <<ret, pc>>
       ELSE /\ ret' = Ok(FALSE)
            /\ pc' = "done"
            /\ UNCHANGED <<scan_y, scan_x, examined>>
    /\ UNCHANGED <<standalone, digits, capture, color,
                   op, x, y, width, height, threshold, template_w, template_h,
                   result_mat, rows, cols,
                   is_continuous, i, matches, multi>>

\* ------------------------------------------------------------------ exhaustive operations
\* find_all_template after match_template: extract_matches(&result_mat, imgobj, confidence)
FindAllTemplateReturn ==
    /\ pc = "extract" /\ op = "find_all_template"
    /\ matches' = ExtractMatches(result_mat, rows, cols, template_w, template_h, threshold)
    /\ ret' = Ok(matches')
    /\ pc' = "done"
    /\ UNCHANGED <<standalone, digits, capture, color,
                   op, x, y, width, height, threshold, template_w, template_h,
                   result_mat, rows, cols,
                   is_continuous, i, scan_y, scan_x, examined, multi>>

\* the integer absolute coordinate taken from a MatchResult
MatchCoord(mr, ox, oy) == <<ox + Round(mr.result.x), oy + Round(mr.result.y)>>

\* the tail of find_image_optimized_coord: matches.first() or the sentinel
FirstMatchCoord(ms, ox, oy) ==
    IF ms # <<>> THEN MatchCoord(ms[1], ox, oy) ELSE <<0, 0>>

\* find_image_optimized_coord after match_template inside find_all_template
FindImageOptimizedCoordReturn ==
    /\ pc = "extract" /\ op = "find_image_optimized_coord"
    /\ matches' = ExtractMatches(result_mat, rows, cols, template_w, template_h, threshold)
    /\ ret' = Ok(FirstMatchCoord(matches', x, y))
    /\ pc' = "done"
    /\ UNCHANGED <<standalone, digits, capture, color,
                   op, x, y, width, height, threshold, template_w, template_h,
                   result_mat, rows, cols,
                   is_continuous, i, scan_y, scan_x, examined, multi>>

NextMatch ==
    \/ CallFindTemplateCoord
    \/ CallFindTemplateExists
    \/ CallFindAllTemplate
    \/ CallFindImageOptimizedCoord
    \/ MatchTemplate
    \/ CoordScanContinuous
    \/ CoordScanRows
    \/ ExistsScanContinuous
    \/ ExistsScanRows
    \/ FindAllTemplateReturn
    \/ FindImageOptimizedCoordReturn

SpecMatch == Init /\ [][NextMatch]_vars

\* ------------------------------------------------------------------ find_images_optimized_coords
MaxPaths == 2

\* the call: an empty path list returns an empty list before any capture
CallImages(w, h, lengths) ==
    /\ pc = "idle"
    /\ op' = "find_images_optimized_coords"
    /\ \E o \in Offsets : x' = o[1] /\ y' = o[2]
    /\ width' = w /\ height' = h
    /\ threshold' \in Thresholds
    /\ image_paths' \in lengths
    /\ IF image_paths' = 0
       THEN ret' = Ok(<<>>) /\ pc' = "done"
       ELSE ret' = ret /\ pc' = "screenshot"
    /\ UNCHANGED <<standalone, digits, capture, color,
                   template_w, template_h, result_mat, rows, cols, is_continuous, i,
                   scan_y, scan_x, examined, matches, path_index, min_distance,
                   match_index, filtered_coords, all_coords, captures>>

\* screenshot_to_mat / screenshot_to_mat_gray: one capture, shared by all templates
Screenshot ==
    /\ pc = "screenshot"
    /\ captures' = captures + 1
    /\ \E captured \in BOOLEAN :
           IF captured
           THEN /\ screenshot' = captures'
                /\ pc' = "read_image" /\ path_index' = 1 /\ ret' = ret
           ELSE /\ screenshot' = screenshot
                /\ pc' = "done" /\ path_index' = path_index
                /\ ret' = Propagate("Screenshot", all_coords)
    /\ UNCHANGED <<standalone, digits, matched_on, color, op, x, y, width, height, threshold,
                   template_w, template_h, result_mat, rows, cols, is_continuous, i,
                   scan_y, scan_x, examined, matches, image_paths, min_distance,
                   match_index, filtered_coords, all_coords>>

\* read_image(image_path)? for the template the loop is at, its size drawn from sizes
ReadImageOf(sizes) ==
    /\ pc = "read_image"
    /\ \E readable \in BOOLEAN :
           IF readable
           THEN /\ \E t \in sizes : template_w' = t[1] /\ template_h' = t[2]
                /\ pc' = "match_template"
                /\ ret' = ret
           ELSE /\ ret' = Propagate("CanNotReadImage", all_coords)
                /\ pc' = "done"
                /\ UNCHANGED <<template_w, template_h>>
    /\ UNCHANGED <<standalone, digits, capture, color,
                   op, x, y, width, height, threshold, result_mat, rows, cols,
                   is_continuous, i, scan_y, scan_x, examined, matches, multi>>

ReadImage == ReadImageOf(TemplateSizes(SrcW, SrcH))

CallFindImagesOptimizedCoords == CallImages(SrcW, SrcH, 0..MaxPaths)

\* let matches = find_all_template(..)?; min_distance; a fresh filtered_coords
FindAllMatches ==
    /\ pc = "extract" /\ op = "find_images_optimized_coords"
    /\ matches' = ExtractMatches(result_mat, rows, cols, template_w, template_h, threshold)
    /\ min_distance' = Max(template_w, template_h)
    /\ filtered_coords' = <<>>
    /\ match_index' = 1
    /\ pc' = "dedup"
    /\ UNCHANGED <<standalone, digits, capture, color,
                   op, x, y, width, height, threshold, template_w, template_h,
                   result_mat, rows, cols, is_continuous, i, scan_y, scan_x, examined,
                   image_paths, path_index, all_coords, captures, ret>>

\* faults of the overlap test: the summed distance, and either axis alone
Overlaps_summed(c, e, md) == Abs(c[1] - e[1]) + Abs(c[2] - e[2]) < md
Overlaps_either(c, e, md) == Abs(c[1] - e[1]) < md \/ Abs(c[2] - e[2]) < md

\* the overlap test between a candidate center c and an accepted center e
Overlaps(c, e, md) == Abs(c[1] - e[1]) < md /\ Abs(c[2] - e[2]) < md

\* fault: the overlap loop also runs over the centers of the earlier templates
AcceptedSoFar_cross(fc, ac) == ac \o fc

\* the list the overlap loop iterates over: the current template's accepted centers
AcceptedSoFar(fc, ac) == fc

\* fault: only the center accepted last is compared
IsOverlapping_last(c, accepted, md) ==
    accepted # <<>> /\ Overlaps(c, accepted[Len(accepted)], md)

\* is_overlapping after `for (existing_x, existing_y) in &filtered_coords`
IsOverlapping(c, accepted, md) ==
    \E e \in 1..Len(accepted) : Overlaps(c, accepted[e], md)

\* one iteration of `for match_result in matches`
DedupStep ==
    /\ pc = "dedup" /\ match_index <= Len(matches)
    /\ LET c == MatchCoord(matches[match_index], x, y) IN
       filtered_coords' =
           IF IsOverlapping(c, AcceptedSoFar(filtered_coords, all_coords), min_distance)
           THEN filtered_coords
           ELSE Append(filtered_coords, c)
    /\ match_index' = match_index + 1
    /\ UNCHANGED <<standalone, digits, capture, color,
                   op, pc, x, y, width, height, threshold, template_w, template_h,
                   result_mat, rows, cols, is_continuous, i, scan_y, scan_x, examined,
                   matches, image_paths, path_index, min_distance, all_coords,
                   captures, ret>>

\* fault: the capture is taken again for every template
LoopBack_capture == "screenshot"

\* `for image_path in image_paths`: the next iteration starts at read_image; the
\* capture made before the loop is not repeated
LoopBack == "read_image"

\* all_coords.extend(filtered_coords); the locals of the loop body (template,
\* matches, filtered_coords, min_distance) are dropped; then the next template, or
\* Ok(all_coords)
ExtendCoords ==
    /\ pc = "dedup" /\ match_index > Len(matches)
    /\ all_coords' = all_coords \o filtered_coords
    /\ template_w' = 0 /\ template_h' = 0
    /\ result_mat' = <<>> /\ rows' = 0 /\ cols' = 0
    /\ matches' = <<>> /\ filtered_coords' = <<>>
    /\ min_distance' = 0 /\ match_index' = 0
    /\ IF path_index < image_paths
       THEN path_index' = path_index + 1 /\ pc' = LoopBack /\ ret' = ret
       ELSE path_index' = path_index /\ pc' = "done" /\ ret' = Ok(all_coords')
    /\ UNCHANGED <<standalone, digits, capture, color,
                   op, x, y, width, height, threshold, is_continuous, i, scan_y,
                   scan_x, examined, image_paths, captures>>

NextMulti ==
    \/ CallFindImagesOptimizedCoords
    \/ Screenshot
    \/ ReadImage
    \/ MatchTemplate
    \/ FindAllMatches
    \/ DedupStep
    \/ ExtendCoords

SpecMulti == Init /\ [][NextMulti]_vars

\* ------------------------------------------------------------------ two candidates, 20x20 template
\* A 45x45 capture and one 20x20 template give a 26x26 confidence map; the maps
\* drawn have two cells above 0, the first at a corner or at the middle of the map,
\* the second at a sum distance |dx| + |dy| or at an axis distance max(|dx|, |dy|)
\* of 5 or of 25 from it.
AnchorCells == {<<0, 0>>, <<0, 25>>, <<25, 0>>, <<25, 25>>, <<12, 12>>}

SumDistance(p, q) == Abs(p[1] - q[1]) + Abs(p[2] - q[2])
AxisDistance(p, q) == Max(Abs(p[1] - q[1]), Abs(p[2] - q[2]))

TwoCandidateMaps(nr, nc) ==
    { [p \in Cells(nr, nc) |-> IF p = a THEN sa ELSE IF p = b THEN sb ELSE 0] :
        <<a, b, sa, sb>> \in
            { t \in AnchorCells \X Cells(nr, nc) \X (Scores \ {0}) \X (Scores \ {0}) :
                  \/ SumDistance(t[1], t[2]) \in {5, 25}
                  \/ AxisDistance(t[1], t[2]) \in {5, 25} } }

CallImages20 == CallImages(45, 45, {1})
ReadImage20 == ReadImageOf({<<20, 20>>})
MatchTemplate20 == MatchTemplateOf(TwoCandidateMaps(26, 26))

NextDedup20 ==
    \/ CallImages20
    \/ Screenshot
    \/ ReadImage20
    \/ MatchTemplate20
    \/ FindAllMatches
    \/ DedupStep
    \/ ExtendCoords

SpecDedup20 == Init /\ [][NextDedup20]_vars

\* ------------------------------------------------------------------ one template, more candidates
\* one template on the SrcW x SrcH capture, with up to MaxCandidates cells of its
\* confidence map above 0
MaxCandidates == 3

CandidateMaps(nr, nc) ==
    UNION { { [p \in Cells(nr, nc) |-> IF p \in H THEN f[p] ELSE 0] : f \in [H -> Scores \ {0}] }
            : H \in SmallSubsets(Cells(nr, nc), MaxCandidates) }

CallImagesOne == CallImages(SrcW, SrcH, {1})

MatchTemplateCandidates ==
    MatchTemplateOf(CandidateMaps(ResultRows(template_w, template_h, width, height),
                                  ResultCols(template_w, template_h, width, height)))

NextDedup ==
    \/ CallImagesOne
    \/ Screenshot
    \/ ReadImage
    \/ MatchTemplateCandidates
    \/ FindAllMatches
    \/ DedupStep
    \/ ExtendCoords

SpecDedup == Init /\ [][NextDedup]_vars

\* ------------------------------------------------------------------ color_detection.rs
\* channel values and colours the colour operations are tried on
Channels == {0, 1, 255}
Colors == Channels \X Channels \X Channels
Palette == {<<0, 0, 0>>, <<10, 20, 30>>, <<30, 20, 10>>}
Tolerances == {0, 40}

\* fault: the channels are subtracted as u8, wrapping, without widening to i32
CalculateColorDifference_u8(c1, c2) ==
    ((c1[1] - c2[1]) % 256) + ((c1[2] - c2[2]) % 256) + ((c1[3] - c2[3]) % 256)

\* calculate_color_difference: |r1 - r2| + |g1 - g2| + |b1 - b2| in i32, as u32
CalculateColorDifference(c1, c2) ==
    Abs(c1[1] - c2[1]) + Abs(c1[2] - c2[2]) + Abs(c1[3] - c2[3])

\* calculate_color_difference(color1, color2)
ColorDifference ==
    /\ pc = "idle"
    /\ op' = "calculate_color_difference"
    /\ color1' \in Colors
    /\ color2' \in Colors
    /\ ret' = Ok(CalculateColorDifference(color1', color2'))
    /\ pc' = "done"
    /\ UNCHANGED <<standalone, digits, capture,
                   x, y, width, height, threshold, template_w, template_h, result_mat,
                   rows, cols, is_continuous, i, scan_y, scan_x, examined, matches,
                   multi, img, target_rgb, tolerance, x1, y1>>

\* screenshot_to_mat: the RGB screen content as a BGR Mat
ToBGR(c) == <<c[3], c[2], c[1]>>

\* the screen contents tried: one palette colour everywhere but in at most MaxHot pixels
Images(nr, nc) ==
    UNION { { [p \in Cells(nr, nc) |-> ToBGR(IF p \in H THEN f[p] ELSE bg)] :
                  f \in [H -> Palette \ {bg}] }
            : <<bg, H>> \in Palette \X SmallSubsets(Cells(nr, nc), MaxHot) }

\* a region colour search is called and captures its region
CallColor(name) ==
    /\ pc = "idle"
    /\ op' = name
    /\ width' \in {1, SrcW} /\ height' \in {1, SrcH}
    /\ rows' = height' /\ cols' = width'
    /\ img' \in Images(rows', cols')
    /\ \E o \in Offsets : x1' = o[1] /\ y1' = o[2]
    /\ target_rgb' \in Palette
    /\ tolerance' \in Tolerances
    /\ pc' = "color_scan"
    /\ UNCHANGED <<standalone, digits, capture,
                   x, y, threshold, template_w, template_h, result_mat, is_continuous,
                   i, scan_y, scan_x, examined, matches, multi, color1, color2, ret>>

CallFindColorInRegion == CallColor("find_color_in_region")
CallFindColorInRegionCoord == CallColor("find_color_in_region_coord")

\* fault: the BGR pixel is read as RGB
ToRGB_unswapped(px) == px

\* let rgb = (bgr.2, bgr.1, bgr.0)
ToRGB(px) == <<px[3], px[2], px[1]>>

\* diff <= tolerance for the pixel at (row, col)
PixelMatches(row, col) ==
    CalculateColorDifference(ToRGB(img[row, col]), target_rgb) <= tolerance

\* fault: the local coordinate is returned transposed
FoundCoord_transposed(ox, oy, lx, ly) == <<ox + ly, oy + lx>>

\* Ok((x1 + x as u32, y1 + y as u32))
FoundCoord(ox, oy, lx, ly) == <<ox + lx, oy + ly>>

\* find_color_in_region: one iteration of the inner loop of the pixel scan
ColorScan ==
    /\ pc = "color_scan" /\ op = "find_color_in_region"
    /\ IF scan_y < rows
       THEN /\ examined' = Append(examined, <<scan_y, scan_x>>)
            /\ IF PixelMatches(scan_y, scan_x)
               THEN ret' = Ok(TRUE) /\ pc' = "done" /\ UNCHANGED <<scan_y, scan_x>>
               ELSE /\ scan_y' = NextScanY(scan_y, scan_x, cols)
                    /\ scan_x' = NextScanX(scan_y, scan_x, cols)
                    /\ UNCHANGED <<ret, pc>>
       ELSE /\ ret' = Ok(FALSE)
            /\ pc' = "done"
            /\ UNCHANGED <<scan_y, scan_x, examined>>
    /\ UNCHANGED <<standalone, digits, capture, color,
                   op, x, y, width, height, threshold, template_w, template_h,
                   result_mat, rows, cols, is_continuous, i, matches, multi>>

\* find_color_in_region_coord: one iteration of the inner loop of the pixel scan
ColorScanCoord ==
    /\ pc = "color_scan" /\ op = "find_color_in_region_coord"
    /\ IF scan_y < rows
       THEN /\ examined' = Append(examined, <<scan_y, scan_x>>)
            /\ IF PixelMatches(scan_y, scan_x)
               THEN /\ ret' = Ok(FoundCoord(x1, y1, scan_x, scan_y))
                    /\ pc' = "done"
                    /\ UNCHANGED <<scan_y, scan_x>>
               ELSE /\ scan_y' = NextScanY(scan_y, scan_x, cols)
                    /\ scan_x' = NextScanX(scan_y, scan_x, cols)
                    /\ UNCHANGED <<ret, pc>>
       ELSE /\ ret' = Ok(<<0, 0>>)
            /\ pc' = "done"
            /\ UNCHANGED <<scan_y, scan_x, examined>>
    /\ UNCHANGED <<standalone, digits, capture, color,
                   op, x, y, width, height, threshold, template_w, template_h,
                   result_mat, rows, cols, is_continuous, i, matches, multi>>

NextColor ==
    \/ ColorDifference
    \/ CallFindColorInRegion
    \/ CallFindColorInRegionCoord
    \/ ColorScan
    \/ ColorScanCoord

SpecColor == Init /\ [][NextColor]_vars

\* ------------------------------------------------------------------ find_characters_from_library_threaded
\* the parallel iterator runs one task per digit of 0..9; the model runs the tasks
\* of the digits 0..MaxDigit
MaxDigit == 2
Digits == 0..MaxDigit

\* the sizes a glyph template of the library may have
GlyphSizes == {<<1, 1>>, <<2, 1>>, <<1, 2>>}

\* the call; the region origin o = (x1, y1) only goes to the capture
CallDigits(o, w, h) ==
    /\ pc = "idle"
    /\ op' = "find_characters_from_library_threaded"
    /\ x' = o[1] /\ y' = o[2]
    /\ width' = w /\ height' = h
    /\ threshold' \in Thresholds
    /\ pc' = "screenshot_gray"
    /\ UNCHANGED <<standalone, digits, capture, color, template_w, template_h, result_mat, rows,
                   cols, is_continuous, i, scan_y, scan_x, examined, matches, multi, ret>>

CallFindCharacters == CallDigits(<<3, 5>>, SrcW, 1)

\* screenshot_to_mat_gray(..)?, Arc::new(screenshot), and the tasks of the iterator
ScreenshotGray ==
    /\ pc = "screenshot_gray"
    /\ captures' = captures + 1
    /\ \E captured \in BOOLEAN :
           IF captured
           THEN /\ screenshot' = captures'
                /\ digit_pc' = [d \in Digits |-> "read_image"]
                /\ glyph' = [d \in Digits |-> <<0, 0>>]
                /\ digit_mat' = [d \in Digits |-> <<>>]
                /\ digit_matches' = [d \in Digits |-> <<>>]
                /\ pc' = "par_iter" /\ ret' = ret
           ELSE /\ ret' = Propagate("Screenshot", <<>>)
                /\ pc' = "done"
                /\ UNCHANGED <<screenshot, digit_pc, glyph, digit_mat, digit_matches>>
    /\ UNCHANGED <<standalone, matched_on, completed, results, color, op, x, y, width, height,
                   threshold, template_w, template_h, result_mat, rows, cols,
                   is_continuous, i, scan_y, scan_x, examined, matches, image_paths,
                   path_index, min_distance, match_index, filtered_coords, all_coords>>

\* fault: a digit whose glyph cannot be read is reported at x = 0
LoadFailed_kept(d) == <<<<0, d>>>>

\* Err(_) => return Vec::new() of read_image
LoadFailed(d) == <<>>

\* Err(_) => return Vec::new() of find_all_template
MatchFailed(d) == <<>>

\* the task of digit d reads <library_path>/<d>.bmp
TaskReadImage(d) ==
    /\ pc = "par_iter" /\ digit_pc[d] = "read_image"
    /\ \E readable \in BOOLEAN :
           IF readable
           THEN /\ \E t \in GlyphSizes : glyph' = [glyph EXCEPT ![d] = t]
                /\ digit_pc' = [digit_pc EXCEPT ![d] = "find_all_template"]
                /\ UNCHANGED <<digit_matches, completed>>
           ELSE /\ digit_matches' = [digit_matches EXCEPT ![d] = LoadFailed(d)]
                /\ digit_pc' = [digit_pc EXCEPT ![d] = "done"]
                /\ completed' = Append(completed, d)
                /\ glyph' = glyph
    /\ UNCHANGED <<standalone, digit_mat, results, capture, color, op, pc, x, y, width, height,
                   threshold, template_w, template_h, result_mat, rows, cols,
                   is_continuous, i, scan_y, scan_x, examined, matches, multi, ret>>

\* fault: only the best match of a digit is kept
DigitCandidates_first(ms, d) ==
    IF ms = <<>> THEN <<>> ELSE <<<<ms[1].result.x, d>>>>

\* matches.into_iter().map(|m| (*m.result.x(), digit as u8)).collect()
DigitCandidates(ms, d) == [k \in 1..Len(ms) |-> <<ms[k].result.x, d>>]

\* the task of digit d runs find_all_template on the shared capture and returns
TaskFindAllTemplate(d) ==
    /\ pc = "par_iter" /\ digit_pc[d] = "find_all_template"
    /\ matched_on' = Append(matched_on, screenshot)
    /\ IF MatchTemplateFails(glyph[d][1], glyph[d][2], width, height)
       THEN /\ digit_matches' = [digit_matches EXCEPT ![d] = MatchFailed(d)]
            /\ digit_mat' = digit_mat
       ELSE /\ \E mat \in Maps(ResultRows(glyph[d][1], glyph[d][2], width, height),
                               ResultCols(glyph[d][1], glyph[d][2], width, height)) :
                   /\ digit_mat' = [digit_mat EXCEPT ![d] = mat]
                   /\ digit_matches' = [digit_matches EXCEPT ![d] =
                          DigitCandidates(
                              ExtractMatches(mat,
                                  ResultRows(glyph[d][1], glyph[d][2], width, height),
                                  ResultCols(glyph[d][1], glyph[d][2], width, height),
                                  glyph[d][1], glyph[d][2], threshold), d)]
    /\ digit_pc' = [digit_pc EXCEPT ![d] = "done"]
    /\ completed' = Append(completed, d)
    /\ UNCHANGED <<standalone, glyph, results, screenshot, color, op, pc, x, y, width, height,
                   threshold, template_w, template_h, result_mat, rows, cols,
                   is_continuous, i, scan_y, scan_x, examined, matches, multi, ret>>

RECURSIVE ConcatInOrder(_, _)
ConcatInOrder(dm, order) ==
    IF order = <<>> THEN <<>> ELSE dm[Head(order)] \o ConcatInOrder(dm, Tail(order))

\* fault: the task results are appended as the tasks finish
MergeResults_completion(dm, order) == ConcatInOrder(dm, order)

\* (0..10).into_par_iter().flat_map(..).collect::<Vec<_>>(): the collected vector
\* holds the task results in the order of the range, whatever order the tasks ran in
MergeResults(dm, order) == ConcatInOrder(dm, [k \in 1..(MaxDigit + 1) |-> k - 1])

\* stable insertion into a list sorted by x ascending
RECURSIVE InsertAsc(_, _)
InsertAsc(s, e) ==
    IF s = <<>> THEN <<e>>
    ELSE IF Head(s)[1] <= e[1] THEN <<Head(s)>> \o InsertAsc(Tail(s), e)
    ELSE <<e>> \o s

\* sorted_results.sort_by(|a, b| a.0.partial_cmp(&b.0)..): a stable sort on x
RECURSIVE SortAsc(_, _)
SortAsc(done, rest) ==
    IF rest = <<>> THEN done ELSE SortAsc(InsertAsc(done, Head(rest)), Tail(rest))

\* char::from(b'0' + digit): the character, as its code
CharFrom(digit) == 48 + digit

\* the characters of the sorted results, collected into the String
ContentString(sr) == [k \in 1..Len(sr) |-> CharFrom(sr[k][2])]

\* all tasks have returned: collect, sort by x, build the string, Ok(content_string)
DigitsReturn ==
    /\ pc = "par_iter" /\ \A d \in Digits : digit_pc[d] = "done"
    /\ results' = MergeResults(digit_matches, completed)
    /\ ret' = Ok(ContentString(SortAsc(<<>>, results')))
    /\ pc' = "done"
    /\ UNCHANGED <<standalone, digit_pc, glyph, digit_mat, digit_matches, completed,
                   capture, color,
                   op, x, y, width, height, threshold, template_w, template_h,
                   result_mat, rows, cols, is_continuous, i, scan_y, scan_x, examined,
                   matches, multi>>

NextDigits ==
    \/ CallFindCharacters
    \/ ScreenshotGray
    \/ \E d \in Digits : TaskReadImage(d)
    \/ \E d \in Digits : TaskFindAllTemplate(d)
    \/ DigitsReturn

SpecDigits == Init /\ [][NextDigits]_vars

\* ------------------------------------------------------------------ capture entry points
\* Monitor::all() returns at most MaxMonitors monitors
MaxMonitors == 2

CaptureOps == {"screenshot_to_ndarray", "screenshot_to_mat", "screenshot_to_mat_gray"}

\* a panic of the thread in place of a returned value
Panic(msg) == [tag |-> "Panic", msg |-> msg]

CallScreenshot(name) ==
    /\ pc = "idle"
    /\ op' = name
    /\ \E o \in Offsets : x' = o[1] /\ y' = o[2]
    /\ width' \in {1, SrcW} /\ height' \in {1, SrcH}
    /\ pc' = "monitor_all"
    /\ UNCHANGED <<standalone, digits, capture, color, threshold, template_w, template_h,
                   result_mat, rows, cols, is_continuous, i, scan_y, scan_x, examined,
                   matches, multi, ret>>

CallScreenshotToNdarray == CallScreenshot("screenshot_to_ndarray")
CallScreenshotToMat == CallScreenshot("screenshot_to_mat")
CallScreenshotToMatGray == CallScreenshot("screenshot_to_mat_gray")

\* let monitors = Monitor::all()?
MonitorAll ==
    /\ pc = "monitor_all"
    /\ \/ /\ \E n \in 0..MaxMonitors : monitors' = Ok([k \in 1..n |-> k])
          /\ pc' = "monitor" /\ ret' = ret
       \/ /\ monitors' = Err("Capture")
          /\ ret' = Err("Capture") /\ pc' = "done"
    /\ UNCHANGED <<path_array, current_coord, overflow_checks, rotation, digits, capture, color,
                   op, x, y, width, height, threshold, template_w, template_h,
                   result_mat, rows, cols, is_continuous, i, scan_y, scan_x, examined,
                   matches, multi>>

\* screenshot_to_mat and screenshot_to_mat_gray return NoMonitorFound on an empty
\* list; screenshot_to_ndarray has no such test
ChecksEmpty(name) == name \in {"screenshot_to_mat", "screenshot_to_mat_gray"}

\* if monitors.is_empty() { return Err(NoMonitorFound) } where present, then
\* &monitors[0], which panics on an empty Vec
SelectMonitor ==
    /\ pc = "monitor"
    /\ IF ChecksEmpty(op) /\ monitors.val = <<>>
       THEN ret' = Err("NoMonitorFound") /\ pc' = "done"
       ELSE IF monitors.val = <<>>
       THEN ret' = Panic("index out of bounds") /\ pc' = "done"
       ELSE ret' = ret /\ pc' = "capture_region"
    /\ UNCHANGED <<standalone, digits, capture, color, op, x, y, width, height,
                   threshold, template_w, template_h, result_mat, rows, cols,
                   is_continuous, i, scan_y, scan_x, examined, matches, multi>>

\* channels of the buffer returned: RGBA array, BGR Mat, single-channel Mat
ChannelsOf(name) ==
    IF name = "screenshot_to_ndarray" THEN 4
    ELSE IF name = "screenshot_to_mat" THEN 3 ELSE 1

\* monitor.capture_region(x, y, width, height)? and the conversion of the image
CaptureRegion ==
    /\ pc = "capture_region"
    /\ captures' = captures + 1
    /\ \/ /\ screenshot' = captures'
          /\ ret' = Ok([monitor |-> monitors.val[1], rows |-> height, cols |-> width,
                        channels |-> ChannelsOf(op)])
       \/ /\ screenshot' = screenshot
          /\ ret' = Err("Capture")
       \/ /\ ChecksEmpty(op)
          /\ screenshot' = captures'
          /\ ret' = Err("OpenCV")
    /\ pc' = "done"
    /\ UNCHANGED <<standalone, digits, matched_on, color, op, x, y, width, height,
                   threshold, template_w, template_h, result_mat, rows, cols,
                   is_continuous, i, scan_y, scan_x, examined, matches, image_paths,
                   path_index, min_distance, match_index, filtered_coords, all_coords>>

NextScreenshot ==
    \/ CallScreenshotToNdarray
    \/ CallScreenshotToMat
    \/ CallScreenshotToMatGray
    \/ MonitorAll
    \/ SelectMonitor
    \/ CaptureRegion

SpecScreenshot == Init /\ [][NextScreenshot]_vars

\* ------------------------------------------------------------------ generate_new_path_array(_i32)
\* a path has at most MaxPathLen points
MaxPathLen == 3

\* i32 is modelled at a reduced width: two's complement of IntBits bits
IntBits == 4
MinInt == -(2 ^ (IntBits - 1))
MaxInt == 2 ^ (IntBits - 1) - 1

\* the coordinates tried: the extremes of the integer range and values near 0
PathPoints == {MinInt, 0, 1, MaxInt} \X {0, 1}
Paths == UNION {[1..n -> PathPoints] : n \in 0..MaxPathLen}

PathOps == {"generate_new_path_array", "generate_new_path_array_i32"}

CallPath(name) ==
    /\ pc = "idle"
    /\ op' = name
    /\ path_array' \in Paths
    /\ current_coord' \in PathPoints
    /\ overflow_checks' \in BOOLEAN
    /\ pc' = "nearest"
    /\ UNCHANGED <<monitors, rotation, digits, capture, color, x, y, width, height, threshold,
                   template_w, template_h, result_mat, rows, cols, is_continuous, i,
                   scan_y, scan_x, examined, matches, multi, ret>>

CallGenerateNewPathArray == CallPath("generate_new_path_array")
CallGenerateNewPathArrayI32 == CallPath("generate_new_path_array_i32")

\* an integer subtraction a - b leaves the range of the type
SubOverflows(a, b) == a - b < MinInt \/ a - b > MaxInt

\* the wrapped result of an integer operation in a build without overflow checks
Wrap(v) == ((v - MinInt) % (2 ^ IntBits)) + MinInt

\* calculate_distance: (dx * dx + dy * dy).sqrt() on f64; the model keeps the
\* radicand, which orders the distances as their square roots do
CalculateDistance(ax, ay, bx, by) ==
    LET dx == bx - ax
        dy == by - ay
    IN  dx * dx + dy * dy

\* calculate_distance_i32: the subtractions are done in i32, then widened to f64
CalculateDistanceI32(ax, ay, bx, by) ==
    LET dx == Wrap(bx - ax)
        dy == Wrap(by - ay)
    IN  dx * dx + dy * dy

Distance(name, c, p) ==
    IF name = "generate_new_path_array_i32"
    THEN CalculateDistanceI32(c[1], c[2], p[1], p[2])
    ELSE CalculateDistance(c[1], c[2], p[1], p[2])

\* the loop over path_array.iter().enumerate(): min_distance starts at
\* f64::INFINITY (held as the empty tuple), min_distance_index at 0
RECURSIVE MinDistanceIndex(_, _, _, _, _, _)
MinDistanceIndex(name, path, c, index, min_dist, min_index) ==
    IF index >= Len(path) THEN min_index
    ELSE LET distance == Distance(name, c, path[index + 1]) IN
         IF min_dist = <<>> \/ distance < min_dist[1]
         THEN MinDistanceIndex(name, path, c, index + 1, <<distance>>, index)
         ELSE MinDistanceIndex(name, path, c, index + 1, min_dist, min_index)

\* the i32 version in a build with overflow checks panics at the first subtraction
\* that overflows
SubtractionPanics(name, path, c) ==
    /\ name = "generate_new_path_array_i32"
    /\ \E k \in 1..Len(path) :
           SubOverflows(path[k][1], c[1]) \/ SubOverflows(path[k][2], c[2])

\* the body: empty path -> Vec::new(); else path_array[min_distance_index..].to_vec()
PathReturn ==
    /\ pc = "nearest"
    /\ ret' = IF path_array = <<>> THEN Ok(<<>>)
              ELSE IF overflow_checks /\ SubtractionPanics(op, path_array, current_coord)
              THEN Panic("attempt to subtract with overflow")
              ELSE Ok(SubSeq(path_array,
                             MinDistanceIndex(op, path_array, current_coord,
                                              0, <<>>, 0) + 1,
                             Len(path_array)))
    /\ pc' = "done"
    /\ UNCHANGED <<standalone, digits, capture, color, op, x, y, width, height,
                   threshold, template_w, template_h, result_mat, rows, cols,
                   is_continuous, i, scan_y, scan_x, examined, matches, multi>>

NextPath ==
    \/ CallGenerateNewPathArray
    \/ CallGenerateNewPathArrayI32
    \/ PathReturn

SpecPath == Init /\ [][NextPath]_vars

\* ------------------------------------------------------------------ calculate_rotation_angle_old
\* degrees of a full turn, the 360.0 of the normalisation loops
FullTurn == 360

\* the headings tried reach MaxTurns full turns to either side of 0
MaxTurns == 2
CurrentAngles == (-(MaxTurns * FullTurn))..(MaxTurns * FullTurn)

\* the points tried: differences of 0, 1 and 2 in each axis, of either sign
FromPoints == {<<0, 0>>, <<1, -1>>}
ToPoints == (-1..1) \X (-1..1)

RotationOp == "calculate_rotation_angle_old"

CallCalculateRotationAngleOld ==
    /\ pc = "idle"
    /\ op' = RotationOp
    /\ current_angle' \in CurrentAngles
    /\ current_xy' \in FromPoints
    /\ target_xy' \in ToPoints
    /\ pc' = "angle"
    /\ UNCHANGED <<target_angle, monitors, path_array, current_coord, overflow_checks,
                   digits, capture, color, x, y, width, height, threshold,
                   template_w, template_h, result_mat, rows, cols, is_continuous, i,
                   scan_y, scan_x, examined, matches, multi, ret>>

\* (dy / dx).atan() / PI * 180.0 for dx # 0 and dy # 0, held to the nearest degree:
\* 45 for a slope of 1, 63 for a slope of 2, 27 for a slope of 1/2, with the sign of
\* the slope
AtanDegrees(dy, dx) ==
    LET magnitude == IF Abs(dy) = Abs(dx) THEN 45
                     ELSE IF Abs(dy) > Abs(dx) THEN 63 ELSE 27
    IN  IF (dy < 0) = (dx < 0) THEN magnitude ELSE -magnitude

\* f64::NAN, and f64::is_nan
NaN == <<>>
IsNaN(a) == a = NaN

\* calculate_angle_old: the bearing from (ax, ay) to (bx, by), 0 along the negative
\* y axis; f64::NAN for identical points
CalculateAngleOld(ax, ay, bx, by) ==
    LET dx == bx - ax
        dy == by - ay
    IN  IF dx = 0
        THEN (IF dy < 0 THEN <<0>> ELSE IF dy > 0 THEN <<180>> ELSE NaN)
        ELSE IF dy = 0
        THEN (IF dx > 0 THEN <<90>> ELSE <<270>>)
        ELSE IF dx > 0 THEN <<AtanDegrees(dy, dx) + 90>>
        ELSE <<AtanDegrees(dy, dx) + 270>>

\* let target_angle = calculate_angle_old(current_x, current_y, target_x, target_y)
TargetAngle ==
    /\ pc = "angle"
    /\ target_angle' = CalculateAngleOld(current_xy[1], current_xy[2],
                                         target_xy[1], target_xy[2])
    /\ pc' = "rotate"
    /\ UNCHANGED <<current_angle, current_xy, target_xy, monitors, path_array,
                   current_coord, overflow_checks, digits, capture, color, op, x, y,
                   width, height, threshold, template_w, template_h, result_mat, rows,
                   cols, is_continuous, i, scan_y, scan_x, examined, matches, multi, ret>>

\* the two while loops: angle_diff is brought into [-360, 360]
RECURSIVE NormalizeDiff(_)
NormalizeDiff(angle_diff) ==
    IF angle_diff > FullTurn THEN NormalizeDiff(angle_diff - FullTurn)
    ELSE IF angle_diff < -FullTurn THEN NormalizeDiff(angle_diff + FullTurn)
    ELSE angle_diff

\* fault: the sign of the difference alone decides, the shorter way round is not taken
DirectionAndAmount_signed(angle_diff) ==
    IF angle_diff > 0 THEN <<"Right", angle_diff>> ELSE <<"Left", Abs(angle_diff)>>

\* the if / else-if chain on the normalised difference
DirectionAndAmount(angle_diff) ==
    IF angle_diff > 0 /\ angle_diff < 180 THEN <<"Right", angle_diff>>
    ELSE IF angle_diff >= -180 /\ angle_diff < 0 THEN <<"Left", Abs(angle_diff)>>
    ELSE IF angle_diff >= 180 /\ angle_diff < FullTurn THEN <<"Left", FullTurn - angle_diff>>
    ELSE IF angle_diff >= -FullTurn /\ angle_diff < -180
    THEN <<"Right", FullTurn + angle_diff>>
    ELSE <<"Right", 0>>

\* the rest of the body: the NaN default, or the rotation for the difference
RotationReturn ==
    /\ pc = "rotate"
    /\ ret' = IF IsNaN(target_angle) THEN Ok(<<"Right", 0>>)
              ELSE Ok(DirectionAndAmount(NormalizeDiff(target_angle[1] - current_angle)))
    /\ pc' = "done"
    /\ UNCHANGED <<standalone, digits, capture, color, op, x, y, width, height,
                   threshold, template_w, template_h, result_mat, rows, cols,
                   is_continuous, i, scan_y, scan_x, examined, matches, multi>>

NextRotation ==
    \/ CallCalculateRotationAngleOld
    \/ TargetAngle
    \/ RotationReturn

SpecRotation == Init /\ [][NextRotation]_vars

\* ------------------------------------------------------------------ claims: single template
Done(name) == pc = "done" /\ op = name /\ ret.tag = "Ok"

\* the cells whose score is >= the f64 threshold, and >= the threshold narrowed to f32
HitsF64 == {p \in Cells(rows, cols) : result_mat[p] >= threshold}
HitsF32 == {p \in Cells(rows, cols) : result_mat[p] >= ToF32(threshold)}

\* p, q are <<row, col>>: p comes before q in row-major order
RowMajorBefore(p, q) == p[1] < q[1] \/ (p[1] = q[1] /\ p[2] < q[2])
RowMajorFirst(S) == CHOOSE p \in S : \A q \in S \ {p} : RowMajorBefore(p, q)
Best(S) == {p \in S : \A q \in S : result_mat[p] >= result_mat[q]}

\* offset + round(col + w/2.0), offset + round(row + h/2.0); an odd w gives col + (w+1)/2
ExpectedCoord(p) ==
    <<x + p[2] + (template_w + 1) \div 2, y + p[1] + (template_h + 1) \div 2>>

\* C4 as stated: find_image_optimized_coord returns the rounded absolute center of
\* the row-major-first cell that meets the threshold.
C4_FirstInRowMajor ==
    (Done("find_image_optimized_coord") /\ HitsF64 # {})
        => ret.val = ExpectedCoord(RowMajorFirst(HitsF64))

\* C4 (amended): find_image_optimized_coord returns, for every confidence map with at
\* least one cell meeting the threshold, the rounded absolute center of the cell of
\* highest confidence among them, the row-major-first one among cells of equal
\* highest confidence.
C4_HighestConfidence ==
    (Done("find_image_optimized_coord") /\ HitsF64 # {})
        => ret.val = ExpectedCoord(RowMajorFirst(Best(HitsF64)))

\* a later cell outscores the row-major-first qualifying cell and is the one returned
C4_Witness ==
    /\ Done("find_image_optimized_coord")
    /\ Cardinality(HitsF64) >= 2
    /\ RowMajorFirst(HitsF64) \notin Best(HitsF64)
    /\ ret.val = ExpectedCoord(RowMajorFirst(Best(HitsF64)))
    /\ ret.val # ExpectedCoord(RowMajorFirst(HitsF64))

ExpectedCandidate(p) ==
    [confidence |-> result_mat[p],
     rectangle |-> <<[x |-> p[2], y |-> p[1]],
                     [x |-> p[2], y |-> p[1] + template_h],
                     [x |-> p[2] + template_w, y |-> p[1]],
                     [x |-> p[2] + template_w, y |-> p[1] + template_h]>>,
     result |-> [x |-> 2 * p[2] + template_w, y |-> 2 * p[1] + template_h]]

\* C10: find_all_template emits exactly one candidate for each cell whose score is
\* >= threshold and none for any other cell; the candidate carries the cell's score,
\* the unrounded center (col + w/2.0, row + h/2.0) and the corners in the order
\* (col,row), (col,row+h), (col+w,row), (col+w,row+h).
C10_OneCandidatePerCell ==
    Done("find_all_template")
        => /\ Len(ret.val) = Cardinality(HitsF64)
           /\ \A p \in HitsF64 : \E k \in 1..Len(ret.val) : ret.val[k] = ExpectedCandidate(p)
           /\ \A k \in 1..Len(ret.val) : \E p \in HitsF64 : ret.val[k] = ExpectedCandidate(p)

\* two candidates, one of them scoring exactly the threshold, and a cell left out
C10_Witness ==
    /\ Done("find_all_template")
    /\ Len(ret.val) = 2
    /\ \E p \in HitsF64 : result_mat[p] = threshold
    /\ \E p \in HitsF64 : result_mat[p] > threshold
    /\ HitsF64 # Cells(rows, cols)
    /\ template_w # template_h

\* ------------------------------------------------------------------ claims: deduplication
\* rounded absolute center of a candidate, from its top-left cell
AbsCenter(mr) ==
    <<x + mr.rectangle[1].x + (template_w + 1) \div 2,
      y + mr.rectangle[1].y + (template_h + 1) \div 2>>

AbsCenters(ms) == [j \in 1..Len(ms) |-> AbsCenter(ms[j])]

LargerSide == IF template_w >= template_h THEN template_w ELSE template_h

\* the acceptance rule of the claim
Separated(c, e, md) == Abs(c[1] - e[1]) >= md \/ Abs(c[2] - e[2]) >= md
Accepts(c, acc, md) == \A e \in 1..Len(acc) : Separated(c, acc[e], md)

RECURSIVE Greedy(_, _, _)
Greedy(cands, acc, md) ==
    IF cands = <<>> THEN acc
    ELSE Greedy(Tail(cands),
                IF Accepts(Head(cands), acc, md) THEN Append(acc, Head(cands)) ELSE acc,
                md)

DedupLoopEnded ==
    pc = "dedup" /\ op = "find_images_optimized_coords" /\ match_index > Len(matches)

\* C1: for each template the candidates are visited in confidence-descending order
\* and a candidate is accepted iff every center already accepted for that template
\* is at least minDistance = max(templateWidth, templateHeight) away in x or in y
\* (rounded absolute centers); every other candidate is dropped.
C1_AcceptIffSeparated ==
    pc = "dedup"
        => /\ min_distance = LargerSide
           /\ \A a, b \in 1..Len(matches) :
                  a < b => matches[a].confidence >= matches[b].confidence
           /\ filtered_coords
                  = Greedy(AbsCenters(SubSeq(matches, 1, match_index - 1)), <<>>, LargerSide)

\* a second candidate accepted on its y distance alone: closer than minDistance in x
C1_Witness ==
    /\ DedupLoopEnded
    /\ min_distance >= 2
    /\ Len(matches) = 2 /\ Len(filtered_coords) = 2
    /\ Abs(filtered_coords[1][1] - filtered_coords[2][1]) < min_distance
    /\ Abs(filtered_coords[1][2] - filtered_coords[2][2]) >= min_distance

TwentyByTwenty == template_w = 20 /\ template_h = 20 /\ Len(matches) = 2

C3_PerTemplate ==
    [][/\ (pc = "screenshot" /\ pc' = "read_image") => all_coords' = <<>>
       /\ (DedupLoopEnded /\ pc' # pc)
              => all_coords' = all_coords
                     \o Greedy(AbsCenters(ExtractMatches(result_mat, rows, cols, template_w,
                                                         template_h, threshold)),
                               <<>>, LargerSide)
       /\ (pc # "done" /\ pc' = "done" /\ ret'.tag = "Ok") => ret'.val = all_coords'
      ]_vars

\* two templates that both report the same center
C3_Witness ==
    /\ Done("find_images_optimized_coords")
    /\ image_paths = 2
    /\ \E a, b \in 1..Len(ret.val) : a < b /\ ret.val[a] = ret.val[b]

\* ------------------------------------------------------------------ claims: colour search
\* the colour of the pixel at p = <<row, col>>, read from the BGR buffer
PixelRGB(p) == <<img[p][3], img[p][2], img[p][1]>>

\* sum of the absolute per-channel differences
ChannelDistance(a, b) ==
    (IF a[1] >= b[1] THEN a[1] - b[1] ELSE b[1] - a[1])
        + (IF a[2] >= b[2] THEN a[2] - b[2] ELSE b[2] - a[2])
        + (IF a[3] >= b[3] THEN a[3] - b[3] ELSE b[3] - a[3])

ColorHits == {p \in Cells(rows, cols) : ChannelDistance(PixelRGB(p), target_rgb) <= tolerance}

\* C7: find_color_in_region_coord scans in row-major order and returns
\* (region.x + local_x, region.y + local_y) of the first pixel whose colour
\* difference to the target is <= tolerance, and (0, 0) when no pixel qualifies.
C7_FirstPixelCoord ==
    Done("find_color_in_region_coord")
        => /\ ColorHits = {} => ret.val = <<0, 0>>
           /\ ColorHits # {}
                  => LET first == RowMajorFirst(ColorHits) IN
                     /\ ret.val = <<x1 + first[2], y1 + first[1]>>
                     /\ Len(examined) = first[1] * cols + first[2] + 1
           /\ \A j \in 1..Len(examined) :
                  examined[j] = <<(j - 1) \div cols, (j - 1) % cols>>

\* a match at the origin of a region at (0, 0) gives the same (0, 0) as no match
C7_Witness ==
    /\ Done("find_color_in_region_coord")
    /\ <<x1, y1>> = <<0, 0>>
    /\ <<0, 0>> \in ColorHits
    /\ ret.val = <<0, 0>>

\* C8: calculate_color_difference is the sum of the absolute per-channel
\* differences: symmetric, 0 for equal colours, and within 0..765.
C8_ColorDifference ==
    Done("calculate_color_difference")
        => /\ ret.val = ChannelDistance(color1, color2)
           /\ ret.val = CalculateColorDifference(color2, color1)
           /\ (color1 = color2 => ret.val = 0)
           /\ ret.val \in 0..765

\* the extreme difference, between black and white
C8_Witness ==
    /\ Done("calculate_color_difference")
    /\ color1 = <<0, 0, 0>> /\ color2 = <<255, 255, 255>>
    /\ ret.val = 765

UniformTarget == \A p \in Cells(rows, cols) : PixelRGB(p) = target_rgb

\* C9: when every pixel of the region equals the target colour and the tolerance is
\* 0, find_color_in_region returns true and find_color_in_region_coord returns the
\* region's top-left absolute coordinate (x1, y1).
C9_UniformRegion ==
    (pc = "done" /\ UniformTarget /\ tolerance = 0)
        => /\ op = "find_color_in_region" => ret = Ok(TRUE)
           /\ op = "find_color_in_region_coord" => ret = Ok(<<x1, y1>>)

\* a region away from the origin, filled with a colour whose channels differ
C9_Witness ==
    /\ pc = "done" /\ op = "find_color_in_region_coord"
    /\ UniformTarget /\ tolerance = 0
    /\ target_rgb = <<10, 20, 30>>
    /\ rows * cols > 1
    /\ <<x1, y1>> # <<0, 0>>
    /\ ret = Ok(<<x1, y1>>)

\* ------------------------------------------------------------------ claims: candidate order
\* the candidates of the scan, as a set: one per cell meeting the f64 threshold
ScanCandidates == {ExpectedCandidate(p) : p \in HitsF64}

SortedByConfidence(ms) ==
    \A k \in 1..(Len(ms) - 1) : ms[k].confidence >= ms[k + 1].confidence

\* ms lists every element of S exactly once
ListsExactly(ms, S) ==
    /\ Len(ms) = Cardinality(S)
    /\ {ms[k] : k \in 1..Len(ms)} = S

\* C11: the list returned by find_all_template is sorted non-increasing by
\* confidence (confidence(i) >= confidence(i+1) for adjacent candidates) and is a
\* permutation of the candidates found by the scan, for every map and threshold.
C11_SortedPermutation ==
    Done("find_all_template")
        => /\ SortedByConfidence(ret.val)
           /\ ListsExactly(ret.val, ScanCandidates)

\* the scan meets a lower-scoring cell before a higher-scoring one, and the list
\* returned has the higher-scoring one first
C11_Witness ==
    /\ Done("find_all_template")
    /\ Len(ret.val) = 2
    /\ \E p, q \in HitsF64 :
           /\ RowMajorBefore(p, q)
           /\ result_mat[p] < result_mat[q]
           /\ ret.val = <<ExpectedCandidate(q), ExpectedCandidate(p)>>

\* ------------------------------------------------------------------ claims: oversized template
TemplateOps == {"find_all_template", "find_template_exists", "find_template_coord"}

\* C16: when the template is larger than the source in width or in height,
\* find_all_template, find_template_exists and find_template_coord return an error,
\* never an empty candidate list, false or the (0, 0) sentinel.
C16_ErrorWhenLarger ==
    (pc = "done" /\ op \in TemplateOps /\ (template_w > width \/ template_h > height))
        => ret.tag = "Err"

\* ------------------------------------------------------------------ claims: digit recognition
DigitsOp == "find_characters_from_library_threaded"

\* the digits whose glyph file could not be loaded
Missing == {d \in DOMAIN digit_pc : digit_pc[d] = "done" /\ glyph[d] = <<0, 0>>}

\* the cells of digit d's confidence map scoring >= threshold (none without a map)
DigitHits(d) ==
    IF digit_mat[d] = <<>> THEN {}
    ELSE {p \in DOMAIN digit_mat[d] : digit_mat[d][p] >= threshold}

\* center x of the candidate of digit d at cell p = <<row, col>>, in half pixels
CenterX2(d, p) == 2 * p[2] + glyph[d][1]

CandidatesOf(D) == UNION {{<<d, p>> : p \in DigitHits(d)} : d \in D}
XValues(D) == {CenterX2(c[1], c[2]) : c \in CandidatesOf(D)}
CountAt(v, d) == Cardinality({p \in DigitHits(d) : CenterX2(d, p) = v})
Below(D, v) == Cardinality({c \in CandidatesOf(D) : CenterX2(c[1], c[2]) < v})
AtMost(D, v) == Cardinality({c \in CandidatesOf(D) : CenterX2(c[1], c[2]) <= v})

\* the characters "0" .. "9"
DecimalChars == <<48, 49, 50, 51, 52, 53, 54, 55, 56, 57>>
DecimalChar(d) == DecimalChars[d + 1]

Occurrences(str, ch, from, to) == Cardinality({k \in from..to : str[k] = ch})

\* C12: the string of digit recognition has exactly one character per candidate
\* scoring >= threshold of every loaded digit (several candidates of one digit all
\* count; a glyph without a confidence map has none), the character is the decimal
\* digit of the glyph, and the characters stand in non-decreasing order of center x:
\* the positions of the candidates with center x = v hold exactly their digits.
C12_OneCharPerCandidate ==
    (pc = "done" /\ op = DigitsOp /\ ret.tag = "Ok")
        => /\ Len(ret.val) = Cardinality(CandidatesOf(Digits))
           /\ \A d \in Digits :
                  Occurrences(ret.val, DecimalChar(d), 1, Len(ret.val))
                      = Cardinality(DigitHits(d))
           /\ \A v \in XValues(Digits) : \A d \in Digits :
                  Occurrences(ret.val, DecimalChar(d),
                              Below(Digits, v) + 1, AtMost(Digits, v)) = CountAt(v, d)

\* "2012": digit 2 scores at both ends of the region, 0 and 1 once in between
C12_Witness ==
    /\ pc = "done" /\ op = DigitsOp /\ ret.tag = "Ok"
    /\ ret.val = <<50, 48, 49, 50>>
    /\ Cardinality(DigitHits(2)) = 2
    /\ Cardinality(DigitHits(0)) = 1 /\ Cardinality(DigitHits(1)) = 1
    /\ Cardinality(XValues(Digits)) = 4

\* the string that lists the candidates of the digits D by center x, and by digit
\* among candidates of equal center x
KeysOf(D) == {k \in XValues(D) \X D : CountAt(k[1], k[2]) > 0}
KeyBefore(k, j) == k[1] < j[1] \/ (k[1] = j[1] /\ k[2] <= j[2])

RECURSIVE KeyOrdered(_)
KeyOrdered(K) ==
    IF K = {} THEN <<>>
    ELSE LET m == CHOOSE k \in K : \A j \in K : KeyBefore(k, j) IN
         [n \in 1..CountAt(m[1], m[2]) |-> DecimalChar(m[2])] \o KeyOrdered(K \ {m})

\* C13: for a fixed buffer, library and threshold the string is the same under every
\* interleaving and completion order of the per-digit tasks, candidates of equal
\* center x included: it is the one string fixed by the confidence maps, whatever
\* order the tasks finished in.
C13_OrderIndependent ==
    (pc = "done" /\ op = DigitsOp /\ ret.tag = "Ok")
        => ret.val = KeyOrdered(KeysOf(Digits))

\* two digits have a candidate at the same center x and the task of the larger
\* digit finished first
C13_Witness ==
    /\ pc = "done" /\ op = DigitsOp /\ ret.tag = "Ok"
    /\ \E v \in XValues(Digits) : CountAt(v, 0) = 1 /\ CountAt(v, 2) = 1
    /\ completed = <<2, 1, 0>>
    /\ Len(ret.val) >= 3

\* C14: a digit whose glyph cannot be loaded contributes no candidate and raises no
\* error: the call succeeds, its string is the string of the remaining digits alone
\* and holds no character of a missing glyph.
C14_MissingGlyphSkipped ==
    (pc = "done" /\ op = DigitsOp /\ Missing # {})
        => /\ ret.tag = "Ok"
           /\ ret.val = KeyOrdered(KeysOf(Digits \ Missing))
           /\ \A d \in Missing : Occurrences(ret.val, DecimalChar(d), 1, Len(ret.val)) = 0

\* glyph 1 is missing, digits 0 and 2 are read
C14_Witness ==
    /\ pc = "done" /\ op = DigitsOp /\ ret.tag = "Ok"
    /\ Missing = {1}
    /\ ret.val = <<50, 48, 50>>

\* C15: a glyph load failure is the only recovered condition: when the confidence
\* map of a loaded glyph cannot be built (the glyph exceeds the captured region)
\* the call returns an error.
C15_OtherErrorsPropagate ==
    (pc = "done" /\ op = DigitsOp
        /\ \E d \in DOMAIN glyph :
               /\ glyph[d] # <<0, 0>>
               /\ MatchTemplateFails(glyph[d][1], glyph[d][2], width, height))
        => ret.tag = "Err"

\* ------------------------------------------------------------------ claims: failures and captures
MultiOp == "find_images_optimized_coords"

\* every template of the list has been read, matched and deduplicated
AllTemplatesDone ==
    image_paths = 0
        \/ (path_index = image_paths /\ Len(matched_on) = image_paths /\ template_w = 0)

\* C17: a call of find_images_optimized_coords yields either the complete coordinate
\* list of all templates or an error that carries no coordinates: when the k-th
\* template cannot be read or its confidence map cannot be built, the coordinates
\* found for templates 1..k-1 are not returned.
C17_AllOrNothing ==
    (pc = "done" /\ op = MultiOp)
        => \/ ret.tag = "Ok" /\ AllTemplatesDone /\ ret.val = all_coords
           \/ ret.tag = "Err" /\ DOMAIN ret = {"tag", "err"} /\ ~AllTemplatesDone

\* the second template fails after the first one produced coordinates
C17_Witness ==
    /\ pc = "done" /\ op = MultiOp
    /\ path_index = 2 /\ all_coords # <<>>
    /\ ret = Err("CanNotReadImage")

\* the buffer every match_template call so far was given is the one capture
SharedCapture ==
    \A k \in 1..Len(matched_on) : matched_on[k] = 1 /\ screenshot = 1 /\ captures = 1

\* C18: a call of multi-template matching or of digit recognition captures the screen
\* at most once: exactly once when at least one template path is given, always once
\* for digit recognition, whatever the number of templates or loadable glyphs; the
\* capture precedes every match, every template and every digit task is matched
\* against that one buffer, and the buffer is never replaced.
C18_SingleSharedCapture ==
    /\ op \in {MultiOp, DigitsOp} => captures <= 1 /\ screenshot \in {0, captures}
    /\ op \in {MultiOp, DigitsOp} => SharedCapture
    /\ (pc = "done" /\ op = MultiOp) => captures = IF image_paths = 0 THEN 0 ELSE 1
    /\ (pc = "done" /\ op = DigitsOp) => captures = 1

\* two templates were matched on the one capture
C18_Witness ==
    /\ pc = "done" /\ op = MultiOp /\ ret.tag = "Ok"
    /\ image_paths = 2 /\ matched_on = <<1, 1>> /\ captures = 1

\* the calls of both operations
NextCaptures == NextMulti \/ NextDigits

SpecCaptures == Init /\ [][NextCaptures]_vars

\* ------------------------------------------------------------------ claims: no monitor
\* C19: every capture entry point (screenshot_to_ndarray, screenshot_to_mat,
\* screenshot_to_mat_gray) returns the NoMonitorFound error, and neither panics nor
\* returns a buffer, when the list of monitors is empty.
C19_NoMonitorFound ==
    (pc = "done" /\ op \in CaptureOps /\ monitors = Ok(<<>>))
        => ret = Err("NoMonitorFound")

\* ------------------------------------------------------------------ claims: nearest point
\* the square of the Euclidean distance between two points
SquaredDistance(p, q) == (p[1] - q[1]) * (p[1] - q[1]) + (p[2] - q[2]) * (p[2] - q[2])

\* the lowest index of a point of path at minimal Euclidean distance to c
FirstNearest(path, c) ==
    CHOOSE k \in 1..Len(path) :
        /\ \A j \in 1..Len(path) : SquaredDistance(path[k], c) <= SquaredDistance(path[j], c)
        /\ \A j \in 1..(k - 1) : SquaredDistance(path[j], c) > SquaredDistance(path[k], c)

SuffixFromNearest ==
    IF path_array = <<>> THEN ret = Ok(<<>>)
    ELSE /\ ret.tag = "Ok"
         /\ ret.val = SubSeq(path_array, FirstNearest(path_array, current_coord),
                             Len(path_array))
         /\ ret.val # <<>>
         /\ ret.val[Len(ret.val)] = path_array[Len(path_array)]

\* C20: generate_new_path_array and generate_new_path_array_i32 return the suffix of
\* the path that starts at the first point of minimal Euclidean distance to
\* current_coord (the lowest index on a tie), order and values kept; an empty path
\* gives an empty list, a non-empty path a non-empty list ending with its last point.
C20_SuffixFromNearest ==
    (pc = "done" /\ op \in PathOps) => SuffixFromNearest

\* ------------------------------------------------------------------ claims: rotation
\* the heading reached from angle a by turning the given amount: Right adds, Left
\* subtracts
Turned(a, turn) == IF turn[1] = "Right" THEN a + turn[2] ELSE a - turn[2]

SameBearing(a, b) == a % FullTurn = b % FullTurn

\* the bearing of the target, when the two points differ
Bearing == target_angle[1]

\* the call is over and its heading is one the description covers
RotationDone == pc = "done" /\ op = RotationOp /\ current_angle \in 0..FullTurn

\* C21: for a heading in [0, 360] and a bearing in [0, 360) the amount is in
\* [0, 180] and turning by it in the returned direction reaches the bearing modulo
\* 360; a difference of exactly 180 gives (Left, 180); a zero difference and
\* identical points give (Right, 0).
C21_TurnReachesBearing ==
    RotationDone =>
        IF current_xy = target_xy
        THEN ret.val = <<"Right", 0>>
        ELSE Bearing \in 0..(FullTurn - 1) =>
                 /\ ret.val[1] \in {"Left", "Right"}
                 /\ ret.val[2] \in 0..180
                 /\ SameBearing(Turned(current_angle, ret.val), Bearing)
                 /\ Abs(Bearing - current_angle) = 180 => ret.val = <<"Left", 180>>
                 /\ Bearing = current_angle => ret.val = <<"Right", 0>>

\* a half turn taken to the left by the third branch: heading 90, bearing 270
C21_Witness ==
    /\ RotationDone
    /\ current_angle = 90 /\ target_angle = <<270>>
    /\ ret.val = <<"Left", 180>>

\* ------------------------------------------------------------------ claims: the two modes
\* what each mode answers for the map, the template and the threshold of the state
ExhaustiveFinds ==
    ExtractMatches(result_mat, rows, cols, template_w, template_h, threshold) # <<>>
ExistenceFinds == \E p \in Cells(rows, cols) : MeetsF32(result_mat[p], threshold)

\* C22: on the same map and threshold find_template_exists returns true exactly
\* when find_all_template returns a non-empty list, also for a threshold that the
\* 32-bit comparison of the existence scan cannot hold exactly.
C22_ModesAgree ==
    /\ Done("find_template_exists") => (ret.val <=> ExhaustiveFinds)
    /\ Done("find_all_template") => ((ret.val # <<>>) <=> ExistenceFinds)

\* ------------------------------------------------------------------ claims: the two scan paths
ScanOps == {"find_template_exists", "find_template_coord"}

\* position (from 1) of cell p = <<row, col>> when the map is read row by row
RowMajorRank(p) == p[1] * cols + p[2] + 1

\* what a row-by-row reading of the map up to the first cell that meets the narrowed
\* threshold gives: how many cells are read, and the value returned
FirstHitOutcome ==
    IF HitsF32 = {}
    THEN [read |-> rows * cols,
          value |-> IF op = "find_template_exists" THEN FALSE ELSE <<0, 0>>]
    ELSE [read |-> RowMajorRank(RowMajorFirst(HitsF32)),
          value |-> IF op = "find_template_exists" THEN TRUE
                    ELSE ExpectedCoord(RowMajorFirst(HitsF32))]

\* C23: in find_template_exists and find_template_coord the contiguous scan and the
\* row-by-row scan read the cells in the same (row-major) order at every step and
\* return the same boolean and the same coordinate: the cells read and the value
\* returned are fixed by the map, the threshold, the template and the offset alone.
C23_ScanPathsAgree ==
    (op \in ScanOps /\ pc \in {"scan", "done"})
        => /\ \A n \in 1..Len(examined) : RowMajorRank(examined[n]) = n
           /\ (pc = "done" /\ ret.tag = "Ok")
                  => /\ Len(examined) = FirstHitOutcome.read
                     /\ ret.val = FirstHitOutcome.value

\* the contiguous scan of a 3 x 2 map whose only hit is its last cell: flat index 5
\* is decoded as row 2, column 1
C23_Witness ==
    /\ Done("find_template_coord") /\ is_continuous
    /\ rows = 3 /\ cols = 2
    /\ HitsF32 = {<<2, 1>>}
    /\ Len(examined) = 6
    /\ ret.val = ExpectedCoord(<<2, 1>>)

\* ------------------------------------------------------------------ claims: rounded center
\* the single-template operations together with find_images_optimized_coords
NextCoords == NextMatch \/ NextMulti

SpecCoords == Init /\ [][NextCoords]_vars

\* round(c + s/2.0) with halves away from zero: an odd s gives c + (s + 1) / 2
RoundedCenter(c, s) == IF s % 2 = 1 THEN c + (s + 1) \div 2 ELSE c + s \div 2

\* offset + round(col + w/2.0), offset + round(row + h/2.0) for cell p = <<row, col>>
RoundedAbs(p) ==
    <<x + RoundedCenter(p[2], template_w), y + RoundedCenter(p[1], template_h)>>

\* the coordinate find_template_coord computes inside its scan for cell p
RoundedInScan(p) == CenterCoord(p[2], p[1], template_w, template_h, x, y)

\* the coordinate the other operations compute from the candidate stored for cell p
RoundedAfterwards(p) ==
    MatchCoord(MatchOf(result_mat, template_w, template_h, p[2], p[1]), x, y)

\* C24: for every cell, template size and offset both ways of rounding give
\* offset + round(col + w/2.0), offset + round(row + h/2.0), halves away from zero,
\* and the coordinates the three operations return are such coordinates of cells
\* that meet the threshold.
C24_RoundedCenter ==
    /\ rows > 0 =>
           \A p \in Cells(rows, cols) :
               /\ RoundedInScan(p) = RoundedAbs(p)
               /\ RoundedAfterwards(p) = RoundedAbs(p)
    /\ (Done("find_template_coord") /\ HitsF32 # {})
           => ret.val \in {RoundedAbs(p) : p \in HitsF32}
    /\ (Done("find_image_optimized_coord") /\ HitsF64 # {})
           => ret.val \in {RoundedAbs(p) : p \in HitsF64}
    /\ (op = MultiOp /\ pc = "dedup")
           => \A e \in 1..Len(filtered_coords) :
                  filtered_coords[e] \in {RoundedAbs(p) : p \in HitsF64}

\* a 1 x 2 template at offset (3, 5) found at row 1, column 2: the center 2.5 is
\* rounded to 3, the center 2.0 stays
C24_Witness ==
    /\ Done("find_template_coord")
    /\ template_w = 1 /\ template_h = 2
    /\ <<x, y>> = <<3, 5>>
    /\ HitsF32 = {<<1, 2>>}
    /\ ret.val = <<6, 7>>

\* ------------------------------------------------------------------ claims: the deduplication loop
\* the candidates of the current template, as rounded absolute centers, and how many
\* of them the loop has visited
Candidates == AbsCenters(matches)
Visited == match_index - 1

Accepted(j) == \E e \in 1..Len(filtered_coords) : filtered_coords[e] = Candidates[j]

\* s is a subsequence of the first n elements of t
IsSubsequence(s, t, n) ==
    \E f \in [1..Len(s) -> 1..n] :
        /\ \A a, b \in 1..Len(s) : a < b => f[a] < f[b]
        /\ \A a \in 1..Len(s) : s[a] = t[f[a]]

\* C25: at every step of the deduplication loop the accepted list of the template is
\* pairwise separated (at least minDistance apart in x or in y), is a subsequence of
\* the confidence-descending candidate list starting with its highest-confidence
\* candidate, and every dropped candidate is within minDistance in both axes of an
\* accepted candidate of confidence not lower than its own; a non-empty candidate
\* list never deduplicates to an empty list.
C25_DedupLoopInvariant ==
    (op = MultiOp /\ pc = "dedup")
        => /\ \A a, b \in 1..Len(filtered_coords) :
                  a < b => Separated(filtered_coords[a], filtered_coords[b], LargerSide)
           /\ \A a, b \in 1..Len(matches) :
                  a < b => matches[a].confidence >= matches[b].confidence
           /\ IsSubsequence(filtered_coords, Candidates, Visited)
           /\ Visited >= 1 => /\ filtered_coords # <<>>
                              /\ filtered_coords[1] = Candidates[1]
           /\ \A j \in 1..Visited :
                  ~Accepted(j)
                      => \E a \in 1..Visited :
                             /\ Accepted(a)
                             /\ matches[a].confidence >= matches[j].confidence
                             /\ Abs(Candidates[j][1] - Candidates[a][1]) < LargerSide
                             /\ Abs(Candidates[j][2] - Candidates[a][2]) < LargerSide

\* three candidates: the second is dropped for the first, the third is accepted
\* although it is within minDistance of the dropped second
C25_Witness ==
    /\ DedupLoopEnded
    /\ Len(matches) = 3
    /\ filtered_coords = <<Candidates[1], Candidates[3]>>
    /\ ~Separated(Candidates[2], Candidates[3], LargerSide)

\* ------------------------------------------------------------------ claims: the (0, 0) sentinel
\* a call of find_template_coord the description covers has returned
CoordReturned ==
    /\ Done("find_template_coord")
    /\ x >= 0 /\ y >= 0 /\ template_w >= 1 /\ template_h >= 1

====
